---------------------------- MODULE Spec2Model ----------------------------
(***************************************************************************)
(* A model of the lunar package (src/lunar.go): a Handler that answers     *)
(* solar <-> lunar date lookups by scanning per-year calendar text files   *)
(* and memoising every parsed day record in a per-file-year cache.         *)
(*                                                                         *)
(* Characters of the text are written as short ASCII names:                *)
(*   run = 閏   yue = 月   zheng = 正   chu = 初   tian = 天   nian = 廿   *)
(*   yi er san si wu liu qi ba jiu shi = 一 二 三 四 五 六 七 八 九 十     *)
(*   xing = 星  ri = 日                                                    *)
(***************************************************************************)
EXTENDS Integers, Sequences, FiniteSets, TLC

\* ------------------------------------------------------------------ bounds
\* The body lines (the lines after the header) of all modelled files together.
MaxLines == 3

\* The lines of BadPool (blank or malformed) of all modelled files together.
MaxBad == 1

\* ------------------------------------------------------- program constants
\* fileDateFormat: file-years up to this one use zero-padded month and day.
PaddedUntil == 2010
\* prepareReader: the number of header lines skipped.
HeaderLines == 3

\* The file-years the FileSource can deliver; any other year is an I/O error.
FileYears == {2010, 2011}
\* The lunar years asked for: the year before the first file-year has no file.
QueryYears == FileYears \cup {y - 1 : y \in FileYears}
\* The last file-year; the year after it has no file.
LastYear == CHOOSE y \in FileYears : \A z \in FileYears : z <= y

\* ------------------------------------------------------------------ values
NewDate(y, m, d) == [Year |-> y, Month |-> m, Day |-> d]

Valid(d) == d.Year # 0 /\ d.Month # 0 /\ d.Day # 0

\* "no record" (a nil *Result)
NoResult == [Date |-> NewDate(0, 0, 0), LunarDate |-> NewDate(0, 0, 0),
             Weekday |-> 0, WeekdayRaw |-> <<>>, SolarTerm |-> "nil"]

EmptyMap == [k \in {} |-> 0]

lunarMap(ch) ==
    CASE ch = "tian" -> 0
      [] ch = "chu" -> 0
      [] ch = "zheng" -> 1
      [] ch = "yi" -> 1
      [] ch = "er" -> 2
      [] ch = "nian" -> 2
      [] ch = "san" -> 3
      [] ch = "si" -> 4
      [] ch = "wu" -> 5
      [] ch = "liu" -> 6
      [] ch = "qi" -> 7
      [] ch = "ba" -> 8
      [] ch = "jiu" -> 9
      [] ch = "shi" -> 10
      [] OTHER -> 0

fileDateFormat(year) == IF year <= PaddedUntil THEN "padded" ELSE "plain"

\* time.Parse of a date text [kind, y, m, d] under a layout.  The padded layout
\* (01, 02) wants two digits for month and day; the plain layout (1, 2) takes
\* one or two digits.  A text of kind "bad" matches no layout.
TimeParse(format, text) ==
    LET twoDigits == text.m >= 10 /\ text.d >= 10
        ok == /\ text.kind # "bad"
              /\ (format = "padded" => (text.kind = "padded" \/ twoDigits))
    IN  [ok |-> ok, date |-> NewDate(text.y, text.m, text.d)]

\* ------------------------------------------------------------- the decoder
\* Lines 274-306 of parseLine: the numeral decoding of field 1.
\* crash is TRUE where the code indexes an empty rune slice.
StripLeap(rs) == IF rs[1] = "run" THEN Tail(rs) ELSE rs

\* DecodeDigits without the step down of the tens digit before a final ten.
DecodeDigitsNoStep(rs, isMonth) ==
    LET Tens(t0) == IF t0 = 10 THEN 1 ELSE t0
    IN  [crash |-> FALSE, isMonth |-> isMonth,
         value |-> Tens(IF Len(rs) > 1 THEN lunarMap(rs[1]) ELSE 0) * 10
                   + lunarMap(rs[Len(rs)]),
         newYear |-> (rs[Len(rs)] = "zheng")]

\* Lines 287-300: the value of the numeral rs.  The tens digit is read only
\* from a numeral of more than one rune; ten as a tens digit counts 1, and a
\* tens digit before a final ten counts one less.
DecodeDigits(rs, isMonth) ==
    LET Tens(t0) == IF t0 = 10 THEN 1 ELSE t0
        Value(unitDigit, t1) ==
            [crash |-> FALSE, isMonth |-> isMonth,
             value |-> (IF Len(rs) > 1 /\ t1 # 0 /\ unitDigit = 10
                        THEN t1 - 1 ELSE t1) * 10 + unitDigit,
             newYear |-> (rs[Len(rs)] = "zheng")]
    IN  Value(lunarMap(rs[Len(rs)]),
              Tens(IF Len(rs) > 1 THEN lunarMap(rs[1]) ELSE 0))

\* Lines 279-285: a final yue makes the label a month marker and is dropped.
DecodeRunes(rs1) ==
    LET Crash(isMonth) ==
            [crash |-> TRUE, isMonth |-> isMonth, value |-> 0,
             newYear |-> FALSE]
        Rest(rs, isMonth) ==
            IF Len(rs) = 0 THEN Crash(isMonth) ELSE DecodeDigits(rs, isMonth)
        Marker(isMonth) ==
            Rest(IF isMonth THEN SubSeq(rs1, 1, Len(rs1) - 1) ELSE rs1, isMonth)
    IN  IF Len(rs1) = 0 THEN Crash(FALSE)
        ELSE Marker(rs1[Len(rs1)] = "yue")

Decode(label) == DecodeRunes(StripLeap(label))

\* ---------------------------------------------------------- scan memory
\* While one file is scanned the records it creates are objects that the
\* pending queue, the cache and find's result all point at.  heap[i] is the
\* i-th record created by the scan; dref and lref are the entries the scan has
\* written into dateCache and lunarDateCache of the scanned file-year (key ->
\* object); created says that cacheMap[fileYear] exists; writes[i] counts the
\* flushes that wrote the month of record i and cached it.
NewMemory == [heap |-> <<>>, dref |-> EmptyMap, lref |-> EmptyMap,
              created |-> FALSE, writes |-> <<>>]

\* Handler.cache: cacheMap[fileYear] is created on first use, then both tables
\* are written under the record's current dates.
cache(hp, r) ==
    [hp EXCEPT !.created = TRUE,
               !.dref = (hp.heap[r].Date :> r) @@ @,
               !.lref = (hp.heap[r].LunarDate :> r) @@ @]

\* PrevMonth without the step from 0 to 12.
PrevMonthNoWrap(lunarMonth) == lunarMonth - 1

\* PrevMonth without the step back: the announced month itself.
PrevMonthSame(lunarMonth) == lunarMonth

\* Lines 310-313: the month before the announced one.
PrevMonth(lunarMonth) ==
    LET tmpLunarMonth == lunarMonth - 1
    IN  IF tmpLunarMonth = 0 THEN 12 ELSE tmpLunarMonth

\* Lines 315-318: every queued record gets the month and is cached, in order.
RECURSIVE FlushQueue(_, _, _)
FlushQueue(hp, q, month) ==
    IF q = <<>> THEN hp
    ELSE LET v == Head(q)
             hp1 == [hp EXCEPT !.heap[v].LunarDate.Month = month,
                               !.writes[v] = @ + 1]
         IN  FlushQueue(cache(hp1, v), Tail(q), month)

\* NextLunarYear without the increment.
NextLunarYearSame(newYear, lunarYear) == lunarYear

\* Lines 287-289: 正 as the last rune of the numeral begins a lunar year.
NextLunarYear(newYear, lunarYear) ==
    IF newYear THEN lunarYear + 1 ELSE lunarYear

\* Handler.parseLine.  A line is [n, date, lunar, wd, term]: n is the number of
\* whitespace separated fields, the others are fields 0..3.  out is
\*   "nil"   no record, no error (a line without fields)
\*   "err"   the date field did not parse
\*   "panic" an index out of range (a field or a rune that is not there)
\*   "ok"    record res was built
parseLine(line, fileYear, lunarYear, lunarMonth, unknownMonthResults, hp) ==
    LET stop(o, m) == [out |-> o, res |-> 0, newunknown |-> <<>>, hp |-> m]
        \* lines 337-343: queue or cache the new record
        Made(hp2, id, lm, q1) ==
            IF lm = 0
            THEN [out |-> "ok", res |-> id,
                  newunknown |-> Append(unknownMonthResults, id), hp |-> hp2]
            ELSE [out |-> "ok", res |-> id, newunknown |-> q1,
                  hp |-> cache(hp2, id)]
        \* lines 322-335: the date field, then the record
        Record(t, hp1, ly, lm, lunarDay, q1) ==
            IF ~t.ok THEN stop("err", hp1)
            ELSE IF line.n < 3 THEN stop("panic", hp1)
            ELSE Made([hp1 EXCEPT !.heap = Append(@,
                         [Date |-> t.date,
                          LunarDate |-> NewDate(ly, lm, lunarDay),
                          Weekday |-> lunarMap(line.wd[Len(line.wd)]),
                          WeekdayRaw |-> line.wd,
                          SolarTerm |-> IF line.n > 3 THEN line.term ELSE ""]),
                                  !.writes = Append(@, 0)],
                      Len(hp1.heap) + 1, lm, q1)
        \* lines 308-320: a month marker flushes the pending queue
        Flush(ly, lm, lunarDay, flush) ==
            Record(TimeParse(fileDateFormat(fileYear), line.date),
                   IF flush
                   THEN FlushQueue(hp, unknownMonthResults, PrevMonth(lm))
                   ELSE hp,
                   ly, lm, lunarDay,
                   IF flush THEN <<>> ELSE unknownMonthResults)
        \* lines 288-306: the year, month and day of the line
        Decoded(dec) ==
            IF dec.crash THEN stop("panic", hp)
            ELSE Flush(NextLunarYear(dec.newYear, lunarYear),
                       IF dec.isMonth THEN dec.value ELSE lunarMonth,
                       IF dec.isMonth THEN 1 ELSE dec.value,
                       dec.isMonth /\ Len(unknownMonthResults) > 0)
    IN  IF line.n = 0 THEN stop("nil", hp)
        ELSE IF line.n < 2 THEN stop("panic", hp)
        ELSE Decoded(Decode(line.lunar))

\* Lines 249-255 of find: after a flush, a queued record that now equals the
\* wanted lunar date makes the record of the current line the result.
FlushedMatch(hp, unknownMonthResults, newunknown, d) ==
    /\ Len(unknownMonthResults) > 0
    /\ Len(newunknown) = 0
    /\ \E k \in 1..Len(unknownMonthResults) :
          hp.heap[unknownMonthResults[k]].LunarDate = d

\* The loop of find (lines 221-259) from line i of the body on.
\* st = [lunarYear, lunarMonth, unknown, result, hp].
RECURSIVE findLoop(_, _, _, _, _, _)
findLoop(body, i, d, dateToLunarDate, fileYear, st) ==
    LET \* lines 246-258: the record of the line, compared and remembered
        Compared(p, res, hit) ==
            findLoop(body, i + 1, d, dateToLunarDate, fileYear,
                     [lunarYear |-> res.LunarDate.Year,
                      lunarMonth |-> res.LunarDate.Month,
                      unknown |-> p.newunknown,
                      result |-> IF hit THEN p.res ELSE st.result,
                      hp |-> p.hp])
        Built(p, res) ==
            Compared(p, res,
                     IF dateToLunarDate
                     THEN res.Date = d
                     ELSE \/ res.LunarDate = d
                          \/ FlushedMatch(p.hp, st.unknown, p.newunknown, d))
        \* lines 231-244: the outcome of parseLine
        Parsed(p) ==
            IF p.out = "nil"
            THEN findLoop(body, i + 1, d, dateToLunarDate, fileYear, st)
            ELSE IF p.out = "err"
            THEN [err |-> "FormatError", st |-> [st EXCEPT !.hp = p.hp]]
            ELSE IF p.out = "panic"
            THEN [err |-> "panic", st |-> [st EXCEPT !.hp = p.hp]]
            ELSE Built(p, p.hp.heap[p.res])
    IN  IF i > Len(body)
        THEN [err |-> "eof", st |-> st]
        ELSE IF body[i].n < 0
        THEN [err |-> "IOError", st |-> st]
        ELSE Parsed(parseLine(body[i], fileYear, st.lunarYear, st.lunarMonth,
                              st.unknown, st.hp))

\* prepareReader: the header lines are skipped; a stream that ends before the
\* third one is an error (io.EOF).
prepareReader(stream) == stream.hdr >= HeaderLines

\* Handler.find on an opened stream.  Returns the record (or NoResult), the
\* error, the memory of the scan and the value left in *lunarMonth.
find(stream, d, dateToLunarDate, fileYear, lunarYear, lunarMonth) ==
    LET Ended(err, s, rec) ==
            [rec |-> rec, err |-> err, hp |-> s.hp,
             lunarMonth |-> s.lunarMonth,
             pending |-> [k \in 1..Len(s.unknown) |-> s.hp.heap[s.unknown[k]]],
             writes |-> s.hp.writes, queued |-> s.unknown]
        \* lines 225-228 and 260-265: how the loop ended
        Looped(lp) ==
            IF lp.err # "eof"
            THEN Ended(lp.err, lp.st, NoResult)
            ELSE IF \/ lp.st.result = 0
                    \/ ~Valid(lp.st.hp.heap[lp.st.result].LunarDate)
            THEN Ended("NotFound", lp.st, NoResult)
            ELSE Ended("nil", lp.st, lp.st.hp.heap[lp.st.result])
    IN  IF ~prepareReader(stream)
        THEN [rec |-> NoResult, err |-> "EOF", hp |-> NewMemory,
              lunarMonth |-> lunarMonth, pending |-> <<>>,
              writes |-> <<>>, queued |-> <<>>]
        ELSE Looped(findLoop(stream.body, 1, d, dateToLunarDate, fileYear,
                             [lunarYear |-> lunarYear,
                              lunarMonth |-> lunarMonth,
                              unknown |-> <<>>, result |-> 0,
                              hp |-> NewMemory]))

\* ------------------------------------------------------- file contents
\* A file is [hdr, body]: the number of header lines it has and its body, one
\* line kind per line.  Line i of the body of file-year y is the day (y, 1, i).
\* A line kind gives
\*   n      the number of whitespace separated fields of the line
\*   dk     the date field: "std" is the file-year's own format, "padded" and
\*          "plain" are the two formats, "bad" is no date
\*   lunar  the lunar label; <<>> stands for the label of the day after the
\*          day of the line before
\*   term   the solar-term label
Body(n, dk, lunar, term) == [n |-> n, dk |-> dk, lunar |-> lunar, term |-> term]

\* The day label as the files write it: 初一..初十, 十一..十九, 二十,
\* 廿一..廿九, 三十.
Units == <<"yi", "er", "san", "si", "wu", "liu", "qi", "ba", "jiu", "shi">>

Encode(n) ==
    IF n <= 10 THEN <<"chu", Units[n]>>
    ELSE IF n < 20 THEN <<"shi", Units[n - 10]>>
    ELSE IF n = 20 THEN <<"er", "shi">>
    ELSE IF n < 30 THEN <<"nian", Units[n - 20]>>
    ELSE <<"san", "shi">>

\* The month label as the files write it: 正月, 二月..十月, 十一月, 十二月.
MonthLabel(m) ==
    IF m = 1 THEN <<"zheng", "yue">>
    ELSE IF m <= 10 THEN <<Units[m], "yue">>
    ELSE <<"shi", Units[m - 10], "yue">>

\* One line kind for every well-formed label: the days 1..30, the months
\* 1..12 and the leap months 1..12.
DayKinds ==
    <<"d1", "d2", "d3", "d4", "d5", "d6", "d7", "d8", "d9", "d10",
      "d11", "d12", "d13", "d14", "d15", "d16", "d17", "d18", "d19", "d20",
      "d21", "d22", "d23", "d24", "d25", "d26", "d27", "d28", "d29", "d30">>

MonthKinds ==
    <<"m1", "m2", "m3", "m4", "m5", "m6", "m7", "m8", "m9", "m10", "m11",
      "m12">>

LeapKinds ==
    <<"r1", "r2", "r3", "r4", "r5", "r6", "r7", "r8", "r9", "r10", "r11",
      "r12">>

Index(kinds, kind) == CHOOSE n \in DOMAIN kinds : kinds[n] = kind

Kinds(kinds) == {kinds[n] : n \in DOMAIN kinds}

LabelPool == Kinds(DayKinds) \cup Kinds(MonthKinds) \cup Kinds(LeapKinds)

LabelBody(kind) ==
    IF kind \in Kinds(DayKinds)
    THEN Body(3, "std", Encode(Index(DayKinds, kind)), "")
    ELSE IF kind \in Kinds(MonthKinds)
    THEN Body(3, "std", MonthLabel(Index(MonthKinds, kind)), "")
    ELSE Body(3, "std", <<"run">> \o MonthLabel(Index(LeapKinds, kind)), "")

BodyOf(kind) ==
    CASE kind = "dT"     -> Body(4, "std", <<>>, "XiaoHan")
      [] kind = "m12"    -> Body(3, "std", <<"shi", "er", "yue">>, "")
      [] kind = "m1T"    -> Body(4, "std", <<"zheng", "yue">>, "LiChun")
      [] kind = "blank"  -> Body(0, "std", <<>>, "")
      [] kind = "bad"    -> Body(3, "bad", <<>>, "")
      [] kind = "badm12" -> Body(3, "bad", <<"shi", "er", "yue">>, "")
      [] kind = "m0"     -> Body(3, "std", <<"la", "yue">>, "")
      [] kind = "d0"     -> Body(3, "std", <<"sa">>, "")
      [] kind = "f1"     -> Body(1, "std", <<>>, "")
      [] kind = "f2"     -> Body(2, "std", <<>>, "")
      [] kind = "rerr"   -> Body(-1, "std", <<>>, "")
      [] kind = "m12T"   -> Body(4, "std", <<"shi", "er", "yue">>, "DaXue")
      [] kind = "r12"    -> Body(3, "std", <<"run", "shi", "er", "yue">>, "")
      [] OTHER           -> LabelBody(kind)

\* Well-formed lines: a day line, the month-marker lines 十二月 and 正月.
GoodPool == {"dT", "m12", "m1T"}

\* Malformed lines: a line without fields; a day line and a month-marker line
\* whose date field is no date; a month-marker line and a day line whose
\* numeral is not in lunarMap (臘月 for the twelfth month, 卅 for 30); a day
\* line of one field and one of two fields; a read that fails with an error
\* other than io.EOF.
BadPool == {"blank", "bad", "badm12", "m0", "d0", "f1", "f2", "rerr"}

\* Lines of a year with a leap month: a day line, 十二月 with a solar term,
\* and the marker 閏十二月 of the leap month that follows it.
LeapPool == {"dT", "m12T", "r12"}

\* The lunar day of the last day of the year before a file's first line.
DayBefore == 27

IsMarker(b) == b.lunar # <<>> /\ b.lunar[Len(b.lunar)] = "yue"

\* The lunar day of body line i: 1 on a month-marker line, else one more than
\* the line before (30 is followed by 1); a line without fields is no day.
RECURSIVE DayAt(_, _)
DayAt(body, i) ==
    IF i = 0 THEN DayBefore
    ELSE IF IsMarker(BodyOf(body[i])) THEN 1
    ELSE IF BodyOf(body[i]).n = 0 THEN DayAt(body, i - 1)
    ELSE (DayAt(body, i - 1) % 30) + 1

WeekChars == <<"ri", "yi", "er", "san", "si", "wu", "liu">>

MkLine(y, i, b, day) ==
    [n |-> b.n,
     date |-> [kind |-> IF b.dk = "std" THEN fileDateFormat(y) ELSE b.dk,
               y |-> y, m |-> 1, d |-> i],
     lunar |-> IF b.lunar = <<>> THEN Encode(day) ELSE b.lunar,
     wd |-> <<"xing", "qi", WeekChars[(i % 7) + 1]>>,
     term |-> b.term]

\* The text stream of file-year y.
StreamOf(y, file) ==
    [hdr |-> file.hdr,
     body |-> [i \in 1..Len(file.body) |->
                 MkLine(y, i, BodyOf(file.body[i]), DayAt(file.body, i))]]

SeqsUpTo(S, n) == UNION {[1..k -> S] : k \in 0..n}

FilesOf(pool) ==
    {[hdr |-> HeaderLines, body |-> bs] : bs \in SeqsUpTo(pool, MaxLines)}

RECURSIVE SumLines(_, _)
SumLines(f, years) ==
    IF years = {} THEN 0
    ELSE LET y == CHOOSE z \in years : TRUE
         IN  Len(f[y].body) + SumLines(f, years \ {y})

\* The number of BadPool lines of the files of the given years.
RECURSIVE SumBad(_, _)
SumBad(f, years) ==
    IF years = {} THEN 0
    ELSE LET y == CHOOSE z \in years : TRUE
         IN  Cardinality({i \in DOMAIN f[y].body : f[y].body[i] \in BadPool})
             + SumBad(f, years \ {y})

\* Every assignment of files over the pool to the file-years.
FileSets(pool) ==
    {f \in [FileYears -> FilesOf(pool)] :
        /\ SumLines(f, FileYears) <= MaxLines
        /\ SumBad(f, FileYears) <= MaxBad}

\* ------------------------------------------------------------------ state
VARIABLES
    files,      \* what the FileSource delivers: file-year -> [hdr, body]
    cacheMap,   \* Handler.cacheMap: file-year -> [dateCache, lunarDateCache]
    last,       \* the latest call on the Handler: arguments, result, the
                \* file-years it loaded, its scans, and completed before it
    completed   \* history: the file-years some scan has read to the end

vars == <<files, cacheMap, last, completed>>

\* loadFileFunc: the stream of a file-year, or an error.
loadFileFunc(year) ==
    IF year \in DOMAIN files
    THEN [ok |-> TRUE, stream |-> StreamOf(year, files[year])]
    ELSE [ok |-> FALSE, stream |-> [hdr |-> 0, body |-> <<>>]]

\* queryCache that never finds the file-year.
queryCacheNotLoaded(cm, fileYear, d, dateToLunarDate) ==
    [loaded |-> FALSE, r |-> NoResult]

\* Handler.queryCache
queryCache(cm, fileYear, d, dateToLunarDate) ==
    IF fileYear \notin DOMAIN cm
    THEN [loaded |-> FALSE, r |-> NoResult]
    ELSE LET c == cm[fileYear]
             t == IF dateToLunarDate THEN c.dateCache ELSE c.lunarDateCache
         IN  [loaded |-> TRUE, r |-> IF d \in DOMAIN t THEN t[d] ELSE NoResult]

\* The cache map once a scan of fileYear has ended: the entries the scan wrote
\* hold the final values of its records, the other entries are as before.
Materialise(cm, fileYear, hp) ==
    IF ~hp.created THEN cm
    ELSE
    LET old == IF fileYear \in DOMAIN cm THEN cm[fileYear]
               ELSE [dateCache |-> EmptyMap, lunarDateCache |-> EmptyMap]
        dc == [k \in DOMAIN hp.dref \cup DOMAIN old.dateCache |->
                 IF k \in DOMAIN hp.dref THEN hp.heap[hp.dref[k]]
                 ELSE old.dateCache[k]]
        lc == [k \in DOMAIN hp.lref \cup DOMAIN old.lunarDateCache |->
                 IF k \in DOMAIN hp.lref THEN hp.heap[hp.lref[k]]
                 ELSE old.lunarDateCache[k]]
        c == [dateCache |-> dc, lunarDateCache |-> lc]
    IN  [y \in DOMAIN cm \cup {fileYear} |-> IF y = fileYear THEN c ELSE cm[y]]

\* One entry of a call's log: a scan of fileYear that began with the given
\* running lunar year and month, how it ended, the records left in the
\* pending queue, and for the records the scan created (in the order of
\* their lines) the number of flushes of each and which of them are queued.
ScanEntry(fileYear, lunarYear, lunarMonth, fr) ==
    [fileYear |-> fileYear, lunarYear |-> lunarYear, lunarMonth |-> lunarMonth,
     err |-> fr.err, pending |-> fr.pending, writes |-> fr.writes,
     queued |-> fr.queued]

\* RunDefers with only the close registered last.
RunDefersLast(defers) ==
    IF defers = <<>> THEN <<>> ELSE <<defers[Len(defers)]>>

\* The deferred f.Close() calls of a method (lines 161, 185, 206) run when it
\* returns, the one registered last first; defers lists the file-years of the
\* streams in the order their close was registered.
RunDefers(defers) ==
    [k \in 1..Len(defers) |-> defers[Len(defers) + 1 - k]]

\* What a call hands back: the cache map after it, the record and error it
\* returns, the file-years it asked the FileSource for, the scans it ran and
\* the streams it closed on return.
Outcome(cm, rec, err, loads, scans, defers) ==
    [cm |-> cm, rec |-> rec, err |-> err, loads |-> loads, scans |-> scans,
     closes |-> RunDefers(defers)]

\* LoadFailed with the FileSource's error replaced by NotFound.
LoadFailedAsNotFound(cm, loads, scans, defers) ==
    Outcome(cm, NoResult, "NotFound", loads, scans, defers)

\* Lines 158-160, 181-184 and 202-205: loadFileFunc returned an error; the
\* method returns it with no record.
LoadFailed(cm, loads, scans, defers) ==
    Outcome(cm, NoResult, "IOError", loads, scans, defers)

\* Handler.DateToLunarDate
DateToLunarDate(cm, d) ==
    LET Scanned(fr) ==
            Outcome(Materialise(cm, d.Year, fr.hp), fr.rec, fr.err,
                    <<d.Year>>, <<ScanEntry(d.Year, d.Year - 1, 0, fr)>>,
                    <<d.Year>>)
        Loaded(f) ==
            IF ~f.ok
            THEN LoadFailed(cm, <<d.Year>>, <<>>, <<>>)
            ELSE Scanned(find(f.stream, d, TRUE, d.Year, d.Year - 1, 0))
        Queried(q) ==
            IF q.loaded /\ q.r # NoResult
            THEN Outcome(cm, q.r, "nil", <<>>, <<>>, <<>>)
            ELSE Loaded(loadFileFunc(d.Year))
    IN  Queried(queryCache(cm, d.Year, d, TRUE))

\* Lines 196-210 of LunarDateToDate: the attempt on file-year d.Year + 1, with
\* the value the first attempt left in lunarMonth and the closes it deferred.
SecondAttempt(cm, d, lunarMonth, loads, scans, defers) ==
    LET Scanned(fr) ==
            Outcome(Materialise(cm, d.Year + 1, fr.hp), fr.rec, fr.err,
                    Append(loads, d.Year + 1),
                    Append(scans,
                           ScanEntry(d.Year + 1, d.Year, lunarMonth, fr)),
                    Append(defers, d.Year + 1))
        Loaded(f1) ==
            IF ~f1.ok
            THEN LoadFailed(cm, Append(loads, d.Year + 1), scans, defers)
            ELSE Scanned(find(f1.stream, d, FALSE, d.Year + 1, d.Year,
                              lunarMonth))
        Queried(q) ==
            IF q.loaded /\ q.r # NoResult
            THEN Outcome(cm, q.r, "nil", loads, scans, defers)
            ELSE IF q.loaded
            THEN Outcome(cm, NoResult, "NotFound", loads, scans, defers)
            ELSE Loaded(loadFileFunc(d.Year + 1))
    IN  Queried(queryCache(cm, d.Year + 1, d, FALSE))

\* Handler.LunarDateToDate
LunarDateToDate(cm, d) ==
    LET Stored(fr, cm1, scans) ==
            IF fr.err # "NotFound"
            THEN Outcome(cm1, fr.rec, fr.err, <<d.Year>>, scans, <<d.Year>>)
            ELSE SecondAttempt(cm1, d, fr.lunarMonth, <<d.Year>>, scans,
                               <<d.Year>>)
        Scanned(fr) ==
            Stored(fr, Materialise(cm, d.Year, fr.hp),
                   <<ScanEntry(d.Year, d.Year - 1, 0, fr)>>)
        Loaded(f) ==
            IF ~f.ok
            THEN LoadFailed(cm, <<d.Year>>, <<>>, <<>>)
            ELSE Scanned(find(f.stream, d, FALSE, d.Year, d.Year - 1, 0))
        Queried(q) ==
            IF q.loaded /\ q.r # NoResult
            THEN Outcome(cm, q.r, "nil", <<>>, <<>>, <<>>)
            ELSE IF q.loaded
            THEN SecondAttempt(cm, d, 0, <<>>, <<>>, <<>>)
            ELSE Loaded(loadFileFunc(d.Year))
    IN  Queried(queryCache(cm, d.Year, d, FALSE))

\* TermKeys without the test of the lunar year.
TermKeysAnyYear(cm, y, year, names) ==
    {k \in DOMAIN cm[y].lunarDateCache :
        LET r == cm[y].lunarDateCache[k]
        IN  /\ r.SolarTerm # ""
            /\ (names = {} \/ r.SolarTerm \in names)}

\* The records getSolarTerms collects from the lunarDateCache of file-year y
\* (lines 135-141), as the keys whose record passes; names = {} is no filter.
TermKeys(cm, y, year, names) ==
    {k \in DOMAIN cm[y].lunarDateCache :
        LET r == cm[y].lunarDateCache[k]
        IN  /\ r.SolarTerm # ""
            /\ r.LunarDate.Year = year
            /\ (names = {} \/ r.SolarTerm \in names)}

\* The list a successful getSolarTerms returns, as a bag: record -> number of
\* times it is in the list (map iteration gives no order).
TermBag(cm1, cm2, year, names) ==
    LET hits == {<<year, k>> : k \in TermKeys(cm1, year, year, names)}
                \cup {<<year + 1, k>> : k \in TermKeys(cm2, year + 1, year, names)}
        val(h) == IF h[1] = year THEN cm1[year].lunarDateCache[h[2]]
                  ELSE cm2[year + 1].lunarDateCache[h[2]]
    IN  [r \in {val(h) : h \in hits} |->
            Cardinality({h \in hits : val(h) = r})]

\* Handler.GetSolarTerms / getSolarTerms: both file-years are loaded through
\* DateToLunarDate of their 1 January, then the lunarDateCache of each is read.
GetSolarTerms(cm, year, names) ==
    LET Failed(c, err, loads, scans, closes) ==
            [cm |-> c, recs |-> EmptyMap, err |-> err, loads |-> loads,
             scans |-> scans, closes |-> closes]
        Second(o1, o2) ==
            IF o2.err # "nil"
            THEN Failed(o2.cm, o2.err, o1.loads \o o2.loads,
                        o1.scans \o o2.scans, o1.closes \o o2.closes)
            ELSE [cm |-> o2.cm, recs |-> TermBag(o1.cm, o2.cm, year, names),
                  err |-> "nil", loads |-> o1.loads \o o2.loads,
                  scans |-> o1.scans \o o2.scans,
                  closes |-> o1.closes \o o2.closes]
        First(o1) ==
            IF o1.err # "nil"
            THEN Failed(o1.cm, o1.err, o1.loads, o1.scans, o1.closes)
            ELSE Second(o1, DateToLunarDate(o1.cm, NewDate(year + 1, 1, 1)))
    IN  First(DateToLunarDate(cm, NewDate(year, 1, 1)))

\* ------------------------------------------------------------- queries
\* The solar dates asked for: the day of every body line, the day after the
\* last line of each file, and a day of a year without a file.
SolarQueries ==
    UNION {{NewDate(y, 1, i) : i \in 1..(Len(files[y].body) + 1)} :
              y \in FileYears}
    \cup {NewDate(LastYear + 1, 1, 1)}

\* The records a scan of file-year y on its own leaves in the cache, by solar
\* date: the scan DateToLunarDate runs on a new Handler.
FullScan(y) ==
    LET Kept(cm) == IF y \in DOMAIN cm THEN cm[y].dateCache ELSE EmptyMap
        Scanned(fr) == Kept(Materialise(EmptyMap, y, fr.hp))
    IN  Scanned(find(StreamOf(y, files[y]), NewDate(0, 0, 0), TRUE, y, y - 1,
                     0))

\* A lunar date no file holds.
AbsentLunar(y) == NewDate(y, 6, 15)

\* The lunar dates asked for: those of the files' records, and absent ones.
LunarQueries ==
    UNION {{fs[k].LunarDate : k \in DOMAIN fs} : fs \in {FullScan(y) : y \in FileYears}}
    \cup {AbsentLunar(y) : y \in QueryYears}

\* The name filters asked for: none, and 小寒.
NameSets == {{}, {"XiaoHan"}}

NoCall == [op |-> "none", d |-> NewDate(0, 0, 0), names |-> {},
           rec |-> NoResult, recs |-> EmptyMap, err |-> "nil",
           loads |-> <<>>, scans |-> <<>>, closes |-> <<>>,
           before |-> {}]

\* The file-years whose scan, in this log, read the file to its end.
Finished(scans) ==
    {scans[k].fileYear : k \in {j \in 1..Len(scans) :
                                   scans[j].err \in {"nil", "NotFound"}}}

\* ------------------------------------------------------------- actions
CallDateToLunarDate(d) ==
    \E o \in {DateToLunarDate(cacheMap, d)} :
        /\ cacheMap' = o.cm
        /\ last' = [op |-> "DateToLunarDate", d |-> d, names |-> {},
                    rec |-> o.rec, recs |-> EmptyMap, err |-> o.err,
                    loads |-> o.loads, scans |-> o.scans,
                    closes |-> o.closes, before |-> completed]
        /\ completed' = completed \cup Finished(o.scans)
        /\ UNCHANGED files

CallLunarDateToDate(d) ==
    \E o \in {LunarDateToDate(cacheMap, d)} :
        /\ cacheMap' = o.cm
        /\ last' = [op |-> "LunarDateToDate", d |-> d, names |-> {},
                    rec |-> o.rec, recs |-> EmptyMap, err |-> o.err,
                    loads |-> o.loads, scans |-> o.scans,
                    closes |-> o.closes, before |-> completed]
        /\ completed' = completed \cup Finished(o.scans)
        /\ UNCHANGED files

CallGetSolarTerms(year, names) ==
    \E o \in {GetSolarTerms(cacheMap, year, names)} :
        /\ cacheMap' = o.cm
        /\ last' = [op |-> "GetSolarTerms", d |-> NewDate(year, 0, 0),
                    names |-> names, rec |-> NoResult, recs |-> o.recs,
                    err |-> o.err, loads |-> o.loads, scans |-> o.scans,
                    closes |-> o.closes, before |-> completed]
        /\ completed' = completed \cup Finished(o.scans)
        /\ UNCHANGED files

\* New(): an empty cache map.  The files are any well-formed ones.
Init ==
    /\ files \in FileSets(GoodPool)
    /\ cacheMap = EmptyMap
    /\ last = NoCall
    /\ completed = {}

\* The same Handler over files that may hold malformed lines.
InitBad ==
    /\ files \in FileSets(GoodPool \cup BadPool)
    /\ cacheMap = EmptyMap
    /\ last = NoCall
    /\ completed = {}

\* A body of a year with a leap month: each marker at most once, and the leap
\* marker after the marker of the regular month.
LeapShaped(body) ==
    \A i, j \in DOMAIN body :
        /\ (body[i] = body[j] /\ body[i] # "dT") => i = j
        /\ (body[i] = "r12" /\ body[j] = "m12T") => j < i

\* The same Handler over files of years with a leap month.
InitLeap ==
    /\ files \in {f \in FileSets(LeapPool) :
                     \A y \in FileYears : LeapShaped(f[y].body)}
    /\ cacheMap = EmptyMap
    /\ last = NoCall
    /\ completed = {}

\* The same Handler over files of one body line with a well-formed label.
InitLabels ==
    /\ files \in {[y \in FileYears |->
                       [hdr |-> HeaderLines,
                        body |-> IF y = z THEN <<kind>> ELSE <<>>]] :
                         z \in FileYears, kind \in LabelPool}
    /\ cacheMap = EmptyMap
    /\ last = NoCall
    /\ completed = {}

Next ==
    \/ \E d \in SolarQueries : CallDateToLunarDate(d)
    \/ \E d \in LunarQueries : CallLunarDateToDate(d)
    \/ \E year \in FileYears, names \in NameSets :
          CallGetSolarTerms(year, names)

Spec == Init /\ [][Next]_vars

SpecBad == InitBad /\ [][Next]_vars

SpecLeap == InitLeap /\ [][Next]_vars

SpecLabels == InitLabels /\ [][Next]_vars

\* =================================================================== claims
\* The records of file-year y as a scan of it alone produces them.
ScanRecords(y) == UNION {{fs[k] : k \in DOMAIN fs} : fs \in {FullScan(y)}}

AllScanRecords == UNION {ScanRecords(y) : y \in FileYears}

\* R is the only record of the files with its lunar date.
UniqueLunar(R) == \A Q \in AllScanRecords : Q.LunarDate = R.LunarDate => Q = R

\* Every scan of the latest call began with the lunar month unknown.
NothingCarried == \A k \in 1..Len(last.scans) : last.scans[k].lunarMonth = 0

\* C1: LunarDateToDate of the lunar date of a scanned record R (whose lunar
\* date no other record has, and whose lunar year is a file-year) returns R's
\* solar date and lunar date, also when R waited in the pending queue.  Stated
\* here for the calls that carried no month from one file-year to the next.
C1_LunarRoundTrip ==
    (last.op = "LunarDateToDate" /\ NothingCarried) =>
        \A R \in AllScanRecords :
            (R.LunarDate = last.d /\ UniqueLunar(R)
             /\ R.LunarDate.Year \in FileYears) =>
                /\ last.err = "nil"
                /\ last.rec.Date = R.Date
                /\ last.rec.LunarDate = R.LunarDate

\* C2: DateToLunarDate of the solar date of a scanned record R returns a
\* record equal to R, from a fresh scan and from the cache alike.
C2_SolarRoundTrip ==
    last.op = "DateToLunarDate" =>
        \A R \in AllScanRecords :
            R.Date = last.d => (last.err = "nil" /\ last.rec = R)

\* C3: no call asks the FileSource for a file-year that an earlier call has
\* scanned to its end (stated for the file-years the cache holds records of).
C3_ScannedOnce ==
    \A k \in 1..Len(last.loads) :
        ~(last.loads[k] \in last.before /\ last.loads[k] \in DOMAIN cacheMap)

\* C4: LunarDateToDate(d) returns a record when d is the lunar date of a
\* record of file-year d.Year + 1 and of no record of file-year d.Year,
\* whatever is cached; and it never reads d.Year + 1 before d.Year.
C4_CrossYear ==
    last.op = "LunarDateToDate" =>
        /\ last.loads \in {<<>>, <<last.d.Year>>, <<last.d.Year + 1>>,
                           <<last.d.Year, last.d.Year + 1>>}
        /\ ( /\ last.d.Year \in FileYears
             /\ last.d.Year + 1 \in FileYears
             /\ \E R \in ScanRecords(last.d.Year + 1) : R.LunarDate = last.d
             /\ \A R \in ScanRecords(last.d.Year) : R.LunarDate # last.d )
           => last.err = "nil"

\* C5: a file-year whose scans have all been aborted is not taken as scanned:
\* LunarDateToDate(d) reads file d.Year unless a scan of it has run to the end.
C5_AllOrNothing ==
    ( /\ last.op = "LunarDateToDate"
      /\ last.d.Year \in FileYears
      /\ last.d.Year \notin last.before )
    => ( Len(last.loads) >= 1 /\ last.loads[1] = last.d.Year )

\* C6: in one LunarDateToDate(d) the scan of file-year d.Year + 1 begins with
\* the running lunar month unknown (0), whatever the scan of d.Year left.
C6_NoCarriedState ==
    last.op = "LunarDateToDate" =>
        \A k \in 1..Len(last.scans) :
            last.scans[k].fileYear = last.d.Year + 1
                => last.scans[k].lunarMonth = 0

\* The records of both tables of every cached file-year.
CachedRecords(cm) ==
    UNION {{cm[y].dateCache[k] : k \in DOMAIN cm[y].dateCache}
           \cup {cm[y].lunarDateCache[k] : k \in DOMAIN cm[y].lunarDateCache} :
           y \in DOMAIN cm}

\* C7: no table of the cache holds a record whose lunar month is 0.
C7_NoUnresolvedMonth ==
    \A r \in CachedRecords(cacheMap) : r.LunarDate.Month # 0

\* A record that waited in the pending queue and was flushed by 正月 is cached
\* with month 12.
C7_Witness ==
    \E k \in 1..Len(last.scans) :
        LET sc == last.scans[k]
            y == sc.fileYear
        IN  /\ sc.lunarMonth = 0
            /\ Len(files[y].body) >= 2
            /\ files[y].body[1] = "dT"
            /\ files[y].body[2] = "m1T"
            /\ y \in DOMAIN cacheMap
            /\ NewDate(y, 1, 1) \in DOMAIN cacheMap[y].dateCache
            /\ cacheMap[y].dateCache[NewDate(y, 1, 1)].LunarDate.Month = 12

\* The month a month-marker line kind announces.
AnnouncedMonth(kind) == IF kind = "m1T" THEN 1 ELSE 12

\* The index of the first month-marker line of a body, 0 when it has none.
FirstMarker(body) ==
    IF \E j \in 1..Len(body) : IsMarker(BodyOf(body[j]))
    THEN CHOOSE j \in 1..Len(body) :
            /\ IsMarker(BodyOf(body[j]))
            /\ \A i \in 1..(j - 1) : ~IsMarker(BodyOf(body[i]))
    ELSE 0

\* C8: after a scan that began with the month unknown and ran to the end, the
\* k >= 1 day lines before the first month-marker line (announcing m) are
\* cached with month m - 1 (12 when m = 1), the lunar year they were made with
\* and their own day, under their solar date and under that lunar date; the
\* pending queue is empty.
C8_DeferredMonth ==
    \A k \in 1..Len(last.scans) :
        LET sc == last.scans[k]
            y == sc.fileYear
            body == files[y].body
            j == FirstMarker(body)
            m == AnnouncedMonth(body[j])
            want(i) == NewDate(y - 1, IF m = 1 THEN 12 ELSE m - 1,
                               DayAt(body, i))
        IN  (sc.lunarMonth = 0 /\ sc.err \in {"nil", "NotFound"} /\ j > 1) =>
                /\ sc.pending = <<>>
                /\ y \in DOMAIN cacheMap
                /\ \A i \in 1..(j - 1) :
                      /\ NewDate(y, 1, i) \in DOMAIN cacheMap[y].dateCache
                      /\ cacheMap[y].dateCache[NewDate(y, 1, i)].LunarDate = want(i)
                      /\ want(i) \in DOMAIN cacheMap[y].lunarDateCache
                      /\ cacheMap[y].lunarDateCache[want(i)]
                            = cacheMap[y].dateCache[NewDate(y, 1, i)]

\* Two day lines were flushed by a 正月 line.
C8_Witness ==
    \E k \in 1..Len(last.scans) :
        /\ last.scans[k].lunarMonth = 0
        /\ last.scans[k].err \in {"nil", "NotFound"}
        /\ files[last.scans[k].fileYear].body = <<"dT", "dT", "m1T">>

\* C9: DateToLunarDate(d) returns a record of d with a valid lunar date (no
\* field 0) and no error, or no record and an error: never a default record.
C9_RecordOrError ==
    last.op = "DateToLunarDate" =>
        \/ (last.err = "nil" /\ last.rec.Date = last.d
            /\ Valid(last.rec.LunarDate))
        \/ (last.err # "nil" /\ last.rec = NoResult)

\* The records of the lunarDateCache of file-years year and year + 1.
LunarCached(cm, year) ==
    UNION {{cm[y].lunarDateCache[k] : k \in DOMAIN cm[y].lunarDateCache} :
           y \in {year, year + 1} \cap DOMAIN cm}

\* C10: every record GetSolarTerms(year, names) returns has a label and the
\* lunar year asked for; with names its label is one of them, without names
\* no cached record with a label and that lunar year is left out.
C10_SolarTermsSound ==
    (last.op = "GetSolarTerms" /\ last.err = "nil") =>
        /\ \A r \in DOMAIN last.recs :
              /\ r.SolarTerm # ""
              /\ r.LunarDate.Year = last.d.Year
              /\ (last.names # {} => r.SolarTerm \in last.names)
        /\ last.names = {} =>
              \A r \in LunarCached(cacheMap, last.d.Year) :
                  (r.SolarTerm # "" /\ r.LunarDate.Year = last.d.Year)
                      => r \in DOMAIN last.recs

\* GetSolarTerms returned records of both file-years while a cached record
\* with a label has another lunar year.
C10_Witness ==
    /\ last.op = "GetSolarTerms"
    /\ last.err = "nil"
    /\ \E r \in DOMAIN last.recs : r.Date.Year = last.d.Year
    /\ \E r \in DOMAIN last.recs : r.Date.Year = last.d.Year + 1
    /\ \E r \in LunarCached(cacheMap, last.d.Year) :
          r.SolarTerm # "" /\ r.LunarDate.Year # last.d.Year

\* The records of the dateCache of file-years year and year + 1: every record
\* a scan cached is there under its solar date.
SolarCached(cm, year) ==
    UNION {{cm[y].dateCache[k] : k \in DOMAIN cm[y].dateCache} :
           y \in {year, year + 1} \cap DOMAIN cm}

\* C11: GetSolarTerms(year) without names returns every cached day record of
\* file-years year and year + 1 that has a label and lunar year year, each
\* exactly once, also when a leap month repeats the lunar dates of the month
\* before it.
C11_SolarTermsComplete ==
    (last.op = "GetSolarTerms" /\ last.err = "nil" /\ last.names = {}) =>
        \A r \in SolarCached(cacheMap, last.d.Year) :
            (r.SolarTerm # "" /\ r.LunarDate.Year = last.d.Year) =>
                (r \in DOMAIN last.recs /\ last.recs[r] = 1)

\* The file-years of the streams the latest call got from the FileSource.
Opened == {last.loads[k] : k \in {j \in 1..Len(last.loads) :
                                      last.loads[j] \in DOMAIN files}}

\* C12: when a call returns, every stream it got from the FileSource has been
\* closed exactly once, and nothing else has been closed, however the call
\* ended.
C12_StreamsClosed ==
    /\ \A y \in Opened :
          Cardinality({k \in 1..Len(last.closes) : last.closes[k] = y}) = 1
    /\ \A k \in 1..Len(last.closes) : last.closes[k] \in Opened

\* LunarDateToDate opened both file-years and the scan of the second one was
\* aborted, or the second one could not be opened after the first was.
C12_Witness ==
    /\ last.op = "LunarDateToDate"
    /\ Len(last.loads) = 2
    /\ last.loads[1] \in DOMAIN files
    /\ last.err \in {"FormatError", "IOError", "panic"}
    /\ Len(last.closes) >= 1

\* The lunar date that a scan of file-year y, begun with the month unknown,
\* is to give the only line of the file, by the kind of its label: a day n
\* waits with month 0; a month m, leap or not, is day 1 of month m, and 正月
\* alone begins the next lunar year.
LabelDate(y, kind) ==
    IF kind \in Kinds(DayKinds)
    THEN NewDate(y - 1, 0, Index(DayKinds, kind))
    ELSE LET m == IF kind \in Kinds(MonthKinds)
                  THEN Index(MonthKinds, kind)
                  ELSE Index(LeapKinds, kind)
         IN  NewDate(IF m = 1 THEN y ELSE y - 1, m, 1)

\* C13: every well-formed label decodes to its number: a day line 1..30 gives
\* a record with that day, a month line 1..12, with or without 閏, gives a
\* record of day 1 of that month, and only 正 raises the lunar year.
C13_DecodeLabels ==
    \A k \in 1..Len(last.scans) :
        LET sc == last.scans[k]
            y == sc.fileYear
            kind == files[y].body[1]
            day1 == NewDate(y, 1, 1)
        IN  (sc.err \in {"nil", "NotFound"} /\ Len(files[y].body) = 1) =>
                IF kind \in Kinds(DayKinds)
                THEN /\ Len(sc.pending) = 1
                     /\ sc.pending[1].LunarDate = LabelDate(y, kind)
                ELSE /\ sc.pending = <<>>
                     /\ y \in DOMAIN cacheMap
                     /\ day1 \in DOMAIN cacheMap[y].dateCache
                     /\ cacheMap[y].dateCache[day1].LunarDate
                           = LabelDate(y, kind)

\* The labels 二十 and 閏正月 have been scanned.
C13_Witness ==
    /\ \E k \in 1..Len(last.scans) :
          /\ files[last.scans[k].fileYear].body \in {<<"d20">>, <<"r1">>}
          /\ last.scans[k].err \in {"nil", "NotFound"}

\* C14: when the FileSource fails for a file-year the call needs, the call
\* returns that error and no record, asks the FileSource for nothing after
\* it (no second try, no fallback to the next file-year), and asked for that
\* file-year once.
C14_LoadErrorSurfaced ==
    \A k \in 1..Len(last.loads) :
        last.loads[k] \notin DOMAIN files =>
            /\ last.err = "IOError"
            /\ last.rec = NoResult
            /\ last.recs = EmptyMap
            /\ k = Len(last.loads)
            /\ \A j \in 1..Len(last.loads) :
                  last.loads[j] = last.loads[k] => j = k

\* LunarDateToDate got an error for file-year d.Year and stopped there; and
\* GetSolarTerms got one for its second file-year.
C14_Witness ==
    \/ /\ last.op = "LunarDateToDate"
       /\ last.loads = <<last.d.Year>>
       /\ last.d.Year \notin DOMAIN files
       /\ last.err = "IOError"
    \/ /\ last.op = "GetSolarTerms"
       /\ Len(last.loads) = 2
       /\ last.loads[2] \notin DOMAIN files
       /\ last.err = "IOError"

\* The non-blank malformed line kinds: a date field that is no date, and
\* fewer than three fields.
MalformedKinds == {"bad", "badm12", "f1", "f2"}

\* C15: a scan of a file with a blank line runs on to the end of the file;
\* a scan of a file with a non-blank malformed line (bad date field, or fewer
\* than three fields) ends with a FormatError, never with a crash.
C15_MalformedIsFormatError ==
    \A k \in 1..Len(last.scans) :
        LET sc == last.scans[k]
            body == files[sc.fileYear].body
        IN  /\ (\E i \in DOMAIN body : body[i] = "blank")
                  => sc.err \in {"nil", "NotFound"}
            /\ (\E i \in DOMAIN body : body[i] \in MalformedKinds)
                  => sc.err = "FormatError"

\* The label of a line kind has 正 as the last character of its numeral.
BeginsYear(kind) ==
    LET l == BodyOf(kind).lunar
    IN  /\ Len(l) >= 1
        /\ \/ l[Len(l)] = "zheng"
           \/ Len(l) >= 2 /\ l[Len(l)] = "yue" /\ l[Len(l) - 1] = "zheng"

\* The lunar year of line i of the body of file-year y: y - 1 and one more
\* for every line up to i that begins a lunar year.
YearAt(y, body, i) ==
    y - 1 + Cardinality({j \in 1..i : BeginsYear(body[j])})

\* C16: every record of file-year y, cached or left in the pending queue of
\* a scan, has the lunar year y - 1 plus the number of 正 lines up to its own
\* line, itself included; a flush of the pending queue leaves the year of
\* the queued records as it was.
C16_RunningLunarYear ==
    /\ \A y \in DOMAIN cacheMap :
          \A i \in 1..Len(files[y].body) :
              NewDate(y, 1, i) \in DOMAIN cacheMap[y].dateCache =>
                  cacheMap[y].dateCache[NewDate(y, 1, i)].LunarDate.Year
                      = YearAt(y, files[y].body, i)
    /\ \A k \in 1..Len(last.scans) :
          \A j \in 1..Len(last.scans[k].pending) :
              LET r == last.scans[k].pending[j]
              IN  r.LunarDate.Year
                      = YearAt(r.Date.Year, files[r.Date.Year].body, r.Date.Day)

\* A day line that waited in the pending queue was flushed by a 正月 line:
\* the day is cached in lunar year y - 1 and the marker line in year y.
C16_Witness ==
    \E y \in DOMAIN cacheMap :
        /\ Len(files[y].body) >= 2
        /\ files[y].body[1] = "dT"
        /\ files[y].body[2] = "m1T"
        /\ NewDate(y, 1, 1) \in DOMAIN cacheMap[y].dateCache
        /\ NewDate(y, 1, 2) \in DOMAIN cacheMap[y].dateCache
        /\ cacheMap[y].dateCache[NewDate(y, 1, 1)].LunarDate
              = NewDate(y - 1, 12, DayBefore + 1)
        /\ cacheMap[y].dateCache[NewDate(y, 1, 2)].LunarDate.Year = y

\* C17: in every scan that ran to the end of its file no record was flushed
\* (its month written and the record cached) more than once, and no record
\* that was flushed is in the pending queue.
C17_FlushedOnce ==
    \A k \in 1..Len(last.scans) :
        LET sc == last.scans[k]
        IN  sc.err \in {"nil", "NotFound"} =>
                /\ \A i \in 1..Len(sc.writes) : sc.writes[i] <= 1
                /\ \A j \in 1..Len(sc.queued) : sc.writes[sc.queued[j]] = 0

\* The cache map cm holds a record under d in the by-solar table (solar) or
\* the by-lunar table of file-year y.
Holds(cm, y, d, solar) ==
    /\ y \in DOMAIN cm
    /\ d \in DOMAIN (IF solar THEN cm[y].dateCache ELSE cm[y].lunarDateCache)

\* The call of this step returned the record rec from the cache: no error,
\* no FileSource call, no scan, and the cache map as it was.
ServedFromCache(rec) ==
    /\ last'.err = "nil"
    /\ last'.rec = rec
    /\ last'.loads = <<>>
    /\ last'.scans = <<>>
    /\ cacheMap' = cacheMap

C18_Step ==
    /\ (last'.op = "DateToLunarDate"
        /\ Holds(cacheMap, last'.d.Year, last'.d, TRUE))
       => ServedFromCache(cacheMap[last'.d.Year].dateCache[last'.d])
    /\ (last'.op = "LunarDateToDate"
        /\ Holds(cacheMap, last'.d.Year, last'.d, FALSE))
       => ServedFromCache(cacheMap[last'.d.Year].lunarDateCache[last'.d])
    /\ (last'.op = "LunarDateToDate"
        /\ last'.d.Year \in DOMAIN cacheMap
        /\ ~Holds(cacheMap, last'.d.Year, last'.d, FALSE)
        /\ Holds(cacheMap, last'.d.Year + 1, last'.d, FALSE))
       => ServedFromCache(cacheMap[last'.d.Year + 1].lunarDateCache[last'.d])

\* C18: a DateToLunarDate(d) whose date is in the by-solar table of file-year
\* d.Year, and a LunarDateToDate(d) whose date is in the by-lunar table of
\* d.Year, or of d.Year + 1 while d.Year is cached without it, return the
\* cached record, call the FileSource for nothing and change no table.
C18_CacheHit == [][C18_Step]_vars

\* LunarDateToDate was served from the table of d.Year + 1 while d.Year was
\* cached without the date.
C18_Witness ==
    /\ last.op = "LunarDateToDate"
    /\ last.err = "nil"
    /\ last.loads = <<>>
    /\ last.rec.Date.Year = last.d.Year + 1
    /\ last.d.Year \in DOMAIN cacheMap
    /\ ~Holds(cacheMap, last.d.Year, last.d, FALSE)

\* C19: in every file-year cache each key of the by-solar table is the Date
\* of its record, each key of the by-lunar table is the LunarDate of its
\* record, and each record of the by-lunar table is the record the by-solar
\* table holds under its solar date.
C19_KeyConsistency ==
    \A y \in DOMAIN cacheMap :
        /\ \A k \in DOMAIN cacheMap[y].dateCache :
              cacheMap[y].dateCache[k].Date = k
        /\ \A k \in DOMAIN cacheMap[y].lunarDateCache :
              LET r == cacheMap[y].lunarDateCache[k]
              IN  /\ r.LunarDate = k
                  /\ r.Date \in DOMAIN cacheMap[y].dateCache
                  /\ cacheMap[y].dateCache[r.Date] = r

\* What a Handler without history answers to the latest call's query.
FreshAnswer == DateToLunarDate(EmptyMap, last.d)

\* C20: whatever calls came before, the records cached for a file-year are
\* those a scan of the file-year on a new Handler caches, and
\* DateToLunarDate(d) answers as a new Handler does.
C20_HistoryIndependent ==
    /\ \A y \in DOMAIN cacheMap : cacheMap[y].dateCache = FullScan(y)
    /\ last.op = "DateToLunarDate" =>
          /\ last.err = FreshAnswer.err
          /\ last.rec = FreshAnswer.rec

=============================================================================
